---- MODULE Spec2Model ----
(***************************************************************************)
(* A model of the peer registry, the eth handshake and the chain-state     *)
(* aggregator of p2p-discovery2 (src/ethpeer/peer.go, src/main.go).        *)
(*                                                                         *)
(* Hashes (common.Hash) are short strings.  Total difficulties (big.Int)   *)
(* are small naturals: only their order (Cmp) is used by the code.  Nil is *)
(* the nil pointer / nil error.                                            *)
(***************************************************************************)
EXTENDS Integers, Sequences, FiniteSets, TLC

Nil == "nil"
\* The nil *big.Int and the nil *Peer, among numbers.
NilTD == -1
NoPeer == 0

\* ------------------------------------------------------------------------
\* Program constants
\* ------------------------------------------------------------------------
maxKnownTxs == 32768
maxKnownBlocks == 1024
ProtocolMaxMsgSize == 10 * 1024 * 1024
StatusMsg == 0
NewBlockHashesMsg == 1
eth63 == 63
eth62 == 62
gversion == eth63
gnetworkid == 888888
genesis == "d4e5"
startBlock == "dc2d"
\* startTD is 2303762395359969 in the source; difficulties are scaled down
\* (TLC integers are 32 bit) and only compared with each other.
startTD == 10

errClosed == "peer set is closed"
errAlreadyRegistered == "peer is already registered"
errNotRegistered == "peer is not registered"

ErrMsgTooLarge == "ErrMsgTooLarge"
ErrDecode == "ErrDecode"
ErrProtocolVersionMismatch == "ErrProtocolVersionMismatch"
ErrNetworkIdMismatch == "ErrNetworkIdMismatch"
ErrGenesisBlockMismatch == "ErrGenesisBlockMismatch"
ErrNoStatusMsg == "ErrNoStatusMsg"
DiscReadTimeout == "DiscReadTimeout"
\* Errors of the transport (p2p.Send, MsgReadWriter.ReadMsg).
SendError == "send error"
ReadError == "read error"
\* Capacity of Handshake's result channel errc.
ErrcCap == 2

\* ------------------------------------------------------------------------
\* Bounds of the model
\* ------------------------------------------------------------------------
MaxOps == 3
NumPeers == 6
MaxCalls == 2
MaxPulls == 1
MaxHei == 2

\* Peer objects; several objects may carry the same identity.
PeerObjs == 1..NumPeers

\* Hashes the model tells apart; every other hash is one of the anonymous
\* hashes counted by a cache's "anon" field.
Tracked == {"h1", "h2"}
Other == "other"

ZeroHash == "0000"
Hashes == {ZeroHash, genesis, "h1", "h2"}

VARIABLES
    knownBlocks,   \* [PeerObjs -> cache]  Peer.knownBlocks
    knownTxs,      \* [PeerObjs -> cache]  Peer.knownTxs
    nops,          \* number of operations started so far (bounded by MaxOps)
    head,          \* [PeerObjs -> hash]   Peer.head
    td,            \* [PeerObjs -> Nat or NilTD] Peer.td
    pgenesis,      \* [PeerObjs -> hash]   Peer.genesis
    plock,         \* [PeerObjs -> [w, r]] Peer.lock: the writer and the readers holding it
    hs,            \* the Handshake invocation in progress or last returned
    old,           \* tasks left over from earlier Handshake invocations
    written,       \* the (head, td) pairs that one write operation has stored together
    ht,            \* [HeadTasks -> record] tasks calling Head() or SetHead()
    bestState,     \* proxy.bestState
    bestHeiAndPeer,   \* proxy.bestHeiAndPeer
    bestHeiAndPeer2,  \* proxy.bestHeiAndPeer2
    bestHeader,    \* proxy.bestHeader
    aggPc,         \* where the merge loop is: "select", "hackRecv" or "panicked";
                   \* before the loop runs, where Start is: "new" or "hackSend"
    seen,          \* the chain-state observations the merge loop has received
    pulls,         \* pullBestBlock tasks started by the fast tick and still running
    bestStateOld,       \* proxy.bestState of the earlier copy of main.go
    bestHeiAndPeerOld,  \* proxy.bestHeiAndPeer of the earlier copy
    peers,         \* PeerSet.peers: a function from the registered identities to peers
    closed,        \* PeerSet.closed
    ret,           \* what the last registry operation or refresh returned
    slock,         \* PeerSet.lock: the writer holding it, the writers waiting, the readers
    lt             \* [LockTasks -> record] tasks running the methods lock by lock

cacheVars == <<knownBlocks, knownTxs, nops>>
peerVars == <<head, td, pgenesis, plock>>
hsVars == <<hs, old, written, ht>>
aggVars == <<bestState, bestHeiAndPeer, bestHeiAndPeer2, bestHeader, aggPc, seen, pulls,
             bestStateOld, bestHeiAndPeerOld>>
lockVars == <<slock, lt>>
setVars == <<peers, closed, ret, lockVars>>
vars == <<cacheVars, peerVars, hsVars, aggVars, setVars>>

\* ------------------------------------------------------------------------
\* set.Set (gopkg.in/fatih/set.v0), as used for the known-hash caches.
\* A cache is [tr |-> the tracked hashes it holds, anon |-> how many other
\* hashes it holds].
\* ------------------------------------------------------------------------
EmptySet == [tr |-> {}, anon |-> 0]

Size(s) == Cardinality(s.tr) + s.anon

Has(s, h) == h \in s.tr

\* Add(h): the sets a cache can become.  A tracked hash joins tr; another
\* hash is either already a member (when there are anonymous members) or new.
Add(s, h) ==
    IF h \in Tracked
    THEN {[s EXCEPT !.tr = @ \cup {h}]}
    ELSE {[s EXCEPT !.anon = @ + 1]} \cup (IF s.anon > 0 THEN {s} ELSE {})

\* Pop(): deletes an arbitrary member (Go map iteration order); an empty set
\* is left alone.
Pop(s) ==
    IF Size(s) = 0 THEN {s}
    ELSE {[s EXCEPT !.tr = @ \ {x}] : x \in s.tr}
         \cup (IF s.anon > 0 THEN {[s EXCEPT !.anon = @ - 1]} ELSE {})

\* for s.Size() >= max { s.Pop() }
RECURSIVE PopWhileFull(_, _)
PopWhileFull(s, max) ==
    IF Size(s) >= max
    THEN UNION {PopWhileFull(t, max) : t \in Pop(s)}
    ELSE {s}

\* The body of MarkBlock / MarkTransaction on a cache bounded by max.
Mark(s, h, max) == UNION {Add(t, h) : t \in PopWhileFull(s, max)}

\* for _, h := range hashes { s.Add(h) }
RECURSIVE AddAll(_, _)
AddAll(s, hashes) ==
    IF hashes = <<>> THEN {s}
    ELSE UNION {AddAll(t, Tail(hashes)) : t \in Add(s, Head(hashes))}

\* ------------------------------------------------------------------------
\* Peer: construction and the known-hash operations
\* ------------------------------------------------------------------------
\* NewPeer: td is big.NewInt(0), head and genesis are the zero hash, both
\* caches are set.New().
InitPeers ==
    /\ head = [p \in PeerObjs |-> ZeroHash]
    /\ td = [p \in PeerObjs |-> 0]
    /\ pgenesis = [p \in PeerObjs |-> ZeroHash]
    /\ plock = [p \in PeerObjs |-> [w |-> Nil, q |-> {}, r |-> {}]]

InitCaches ==
    /\ knownBlocks = [p \in PeerObjs |-> EmptySet]
    /\ knownTxs = [p \in PeerObjs |-> EmptySet]
    /\ nops = 0

HashInputs == Tracked \cup {Other}

\* The slices of hashes handed to the send operations.
Batches ==
    {<<>>} \cup {<<a>> : a \in HashInputs}
           \cup {<<a, b>> : a \in HashInputs, b \in HashInputs}

MarkBlock(p, h) ==
    /\ nops < MaxOps
    /\ \E s \in Mark(knownBlocks[p], h, maxKnownBlocks) :
           knownBlocks' = [knownBlocks EXCEPT ![p] = s]
    /\ nops' = nops + 1
    /\ UNCHANGED <<knownTxs, peerVars, hsVars, aggVars, setVars>>

MarkTransaction(p, h) ==
    /\ nops < MaxOps
    /\ \E s \in Mark(knownTxs[p], h, maxKnownTxs) :
           knownTxs' = [knownTxs EXCEPT ![p] = s]
    /\ nops' = nops + 1
    /\ UNCHANGED <<knownBlocks, peerVars, hsVars, aggVars, setVars>>

SendTransactions(p, txs) ==
    /\ nops < MaxOps
    /\ \E s \in AddAll(knownTxs[p], txs) :
           knownTxs' = [knownTxs EXCEPT ![p] = s]
    /\ nops' = nops + 1
    /\ UNCHANGED <<knownBlocks, peerVars, hsVars, aggVars, setVars>>

SendNewBlockHashes(p, hashes) ==
    /\ nops < MaxOps
    /\ \E s \in AddAll(knownBlocks[p], hashes) :
           knownBlocks' = [knownBlocks EXCEPT ![p] = s]
    /\ nops' = nops + 1
    /\ UNCHANGED <<knownTxs, peerVars, hsVars, aggVars, setVars>>

SendNewBlock(p, h) ==
    /\ nops < MaxOps
    /\ \E s \in Add(knownBlocks[p], h) :
           knownBlocks' = [knownBlocks EXCEPT ![p] = s]
    /\ nops' = nops + 1
    /\ UNCHANGED <<knownTxs, peerVars, hsVars, aggVars, setVars>>

\* ------------------------------------------------------------------------
\* Handshake
\* ------------------------------------------------------------------------
\* Peer.version, fixed by NewPeer.
PeerVersion(p) == gversion

ZeroStatus ==
    [ProtocolVersion |-> 0, NetworkId |-> 0, TD |-> NilTD,
     CurrentBlock |-> ZeroHash, GenesisBlock |-> ZeroHash]

\* The status payloads a remote peer may send.
Statuses ==
    {[ProtocolVersion |-> v, NetworkId |-> n, TD |-> 5,
      CurrentBlock |-> "h1", GenesisBlock |-> g] :
        v \in {eth63, eth62}, n \in {gnetworkid, gnetworkid + 1},
        g \in {genesis, "h1"}}
    \cup {[ProtocolVersion |-> eth63, NetworkId |-> gnetworkid, TD |-> 9,
           CurrentBlock |-> "h2", GenesisBlock |-> genesis]}

\* The messages ReadMsg may return: code, declared size, whether the payload
\* decodes as a statusData, and the payload.
Msgs ==
    {[code |-> c, size |-> z, ok |-> d, st |-> st] :
        c \in {StatusMsg, NewBlockHashesMsg},
        z \in {ProtocolMaxMsgSize, ProtocolMaxMsgSize + 1},
        d \in BOOLEAN, st \in Statuses}

\* readStatus with the network id compared before the genesis hash.
readStatusNetFirst(msg, network, version, gen) ==
    IF msg.code # StatusMsg
    THEN [err |-> ErrNoStatusMsg, decoded |-> FALSE, status |-> ZeroStatus]
    ELSE IF msg.size > ProtocolMaxMsgSize
    THEN [err |-> ErrMsgTooLarge, decoded |-> FALSE, status |-> ZeroStatus]
    ELSE IF ~msg.ok
    THEN [err |-> ErrDecode, decoded |-> TRUE, status |-> ZeroStatus]
    ELSE IF msg.st.NetworkId # network
    THEN [err |-> ErrNetworkIdMismatch, decoded |-> TRUE, status |-> msg.st]
    ELSE IF msg.st.GenesisBlock # gen
    THEN [err |-> ErrGenesisBlockMismatch, decoded |-> TRUE, status |-> msg.st]
    ELSE IF msg.st.ProtocolVersion # version
    THEN [err |-> ErrProtocolVersionMismatch, decoded |-> TRUE, status |-> msg.st]
    ELSE [err |-> Nil, decoded |-> TRUE, status |-> msg.st]

\* readStatus after ReadMsg returned msg: the error it returns, whether it
\* called msg.Decode, and what it left in status.
readStatus(msg, network, version, gen) ==
    IF msg.code # StatusMsg
    THEN [err |-> ErrNoStatusMsg, decoded |-> FALSE, status |-> ZeroStatus]
    ELSE IF msg.size > ProtocolMaxMsgSize
    THEN [err |-> ErrMsgTooLarge, decoded |-> FALSE, status |-> ZeroStatus]
    ELSE IF ~msg.ok
    THEN [err |-> ErrDecode, decoded |-> TRUE, status |-> ZeroStatus]
    ELSE IF msg.st.GenesisBlock # gen
    THEN [err |-> ErrGenesisBlockMismatch, decoded |-> TRUE, status |-> msg.st]
    ELSE IF msg.st.NetworkId # network
    THEN [err |-> ErrNetworkIdMismatch, decoded |-> TRUE, status |-> msg.st]
    ELSE IF msg.st.ProtocolVersion # version
    THEN [err |-> ErrProtocolVersionMismatch, decoded |-> TRUE, status |-> msg.st]
    ELSE [err |-> Nil, decoded |-> TRUE, status |-> msg.st]

\* The errors Handshake can return: that of the send, that of ReadMsg, the
\* timeout and those of readStatus.
HandshakeErrors(p, network, gen) ==
    {SendError, ReadError, DiscReadTimeout}
    \cup ({readStatus(x, network, PeerVersion(p), gen).err : x \in Msgs} \ {Nil})

\* What a Handshake that runs to its return can have done: failed with one
\* of its errors, or succeeded and stored the status of a message that
\* passes readStatus.
HandshakeOutcomes(p, network, gen) ==
    {[ok |-> FALSE, err |-> e, status |-> ZeroStatus] :
        e \in HandshakeErrors(p, network, gen)}
    \cup {[ok |-> TRUE, err |-> Nil, status |-> m.st] :
             m \in {x \in Msgs :
                      readStatus(x, network, PeerVersion(p), gen).err = Nil}}

\* The Handshake invocation in progress or last returned: the caller (st, i,
\* ret), its result channel, the status variable shared with the reading
\* task, the sending task (snd, sres), the reading task (rdr, rmsg, rres,
\* decoded) and the timer (tmr).
\* n: how many invocations there have been.
\* head0, td0: the peer's head and td when Handshake was called.
\* early: the timer fired when fewer than two results had been reported.
NoMsg == [code |-> StatusMsg, size |-> 0, ok |-> FALSE, st |-> ZeroStatus]

IdleCall ==
    [st |-> "idle", n |-> 0, peer |-> NoPeer, network |-> 0, genesis |-> ZeroHash,
     i |-> 0, errc |-> <<>>, status |-> ZeroStatus,
     snd |-> "none", sres |-> "none",
     rdr |-> "none", rres |-> "none", rmsg |-> NoMsg, decoded |-> FALSE,
     tmr |-> "none", ret |-> "none",
     head0 |-> ZeroHash, td0 |-> NilTD, early |-> FALSE]

\* old: the tasks of earlier invocations that are still in their I/O.
InitHs ==
    /\ hs = IdleCall
    /\ old = [snd |-> 0, rdr |-> 0]
    /\ written = {<<ZeroHash, 0>>}

Reported(c) ==
    (IF c.snd = "done" THEN 1 ELSE 0) + (IF c.rdr = "done" THEN 1 ELSE 0)

\* A send on errc that finds no receiver returns only if the buffer is
\* empty.
RoomUnbuffered(errc) == errc = <<>>

\* errc <- err returns at once: the buffer of errc has room.
Room(errc) == Len(errc) < ErrcCap

\* The tasks of the invocation that are still in their I/O.
Running(c) ==
    (IF c.snd = "run" THEN 1 ELSE 0) + (IF c.rdr = "run" THEN 1 ELSE 0)

\* Handshake is entered: errc is made, both tasks and the timer are started.
\* Invocations on a peer follow each other; the tasks of an earlier one may
\* still be in their I/O.
HandshakeCall(p, network, gen) ==
    /\ hs.st \in {"idle", "done"}
    /\ hs.n < MaxCalls
    /\ old' = [snd |-> old.snd + (IF hs.snd = "run" THEN 1 ELSE 0),
               rdr |-> old.rdr + (IF hs.rdr = "run" THEN 1 ELSE 0)]
    /\ hs' = [IdleCall EXCEPT !.st = "wait", !.n = hs.n + 1, !.peer = p,
                              !.network = network, !.genesis = gen,
                              !.snd = "run", !.rdr = "run", !.tmr = "armed",
                              !.head0 = head[p], !.td0 = td[p]]
    /\ UNCHANGED <<written, ht, cacheVars, peerVars, aggVars, setVars>>

\* go func() { errc <- p2p.Send(...) }()
SendStatus(err) ==
    /\ hs.snd = "run"
    /\ Room(hs.errc)
    /\ hs' = [hs EXCEPT !.snd = "done", !.sres = err, !.errc = Append(@, err)]
    /\ UNCHANGED <<old, written, ht, cacheVars, peerVars, aggVars, setVars>>

\* The reading task storing what it decoded straight into the peer.
ReadStatusStores(msg) ==
    /\ hs.rdr = "run"
    /\ Room(hs.errc)
    /\ LET r == readStatus(msg, hs.network, PeerVersion(hs.peer), hs.genesis)
       IN /\ hs' = [hs EXCEPT !.rdr = "done", !.rres = r.err, !.rmsg = msg,
                              !.decoded = r.decoded, !.status = r.status,
                              !.errc = Append(@, r.err)]
          /\ td' = IF r.decoded THEN [td EXCEPT ![hs.peer] = r.status.TD] ELSE td
          /\ head' = IF r.decoded
                     THEN [head EXCEPT ![hs.peer] = r.status.CurrentBlock]
                     ELSE head
    /\ UNCHANGED <<pgenesis, plock, old, written, ht, cacheVars, aggVars, setVars>>

\* go func() { errc <- p.readStatus(...) }(), ReadMsg returning msg
ReadStatus(msg) ==
    /\ hs.rdr = "run"
    /\ Room(hs.errc)
    /\ LET r == readStatus(msg, hs.network, PeerVersion(hs.peer), hs.genesis)
       IN hs' = [hs EXCEPT !.rdr = "done", !.rres = r.err, !.rmsg = msg,
                           !.decoded = r.decoded, !.status = r.status,
                           !.errc = Append(@, r.err)]
    /\ UNCHANGED <<old, written, ht, cacheVars, peerVars, aggVars, setVars>>

\* the same task, ReadMsg returning an error
ReadFail ==
    /\ hs.rdr = "run"
    /\ Room(hs.errc)
    /\ hs' = [hs EXCEPT !.rdr = "done", !.rres = ReadError,
                         !.errc = Append(@, ReadError)]
    /\ UNCHANGED <<old, written, ht, cacheVars, peerVars, aggVars, setVars>>

\* The sending task of an earlier invocation ends.
OldSendDone ==
    /\ old.snd > 0
    /\ old' = [old EXCEPT !.snd = @ - 1]
    /\ UNCHANGED <<hs, written, ht, cacheVars, peerVars, aggVars, setVars>>

\* The reading task of an earlier invocation gets the next message (or the
\* read error) and ends.
OldReadDone ==
    /\ old.rdr > 0
    /\ old' = [old EXCEPT !.rdr = @ - 1]
    /\ UNCHANGED <<hs, written, ht, cacheVars, peerVars, aggVars, setVars>>

\* handshakeTimeout elapses while Handshake is in its loop.
TimerFire ==
    /\ hs.st = "wait"
    /\ hs.tmr = "armed"
    /\ hs' = [hs EXCEPT !.tmr = "fired", !.early = (Reported(hs) < 2)]
    /\ UNCHANGED <<old, written, ht, cacheVars, peerVars, aggVars, setVars>>

\* The loop leaving after one result instead of two.
SelectErrcOnce ==
    /\ hs.st = "wait"
    /\ hs.errc # <<>>
    /\ LET err == Head(hs.errc)
       IN hs' = IF err # Nil
                THEN [hs EXCEPT !.errc = Tail(@), !.st = "done", !.ret = err,
                                !.tmr = "stopped"]
                ELSE [hs EXCEPT !.errc = Tail(@), !.i = @ + 1, !.st = "commit"]
    /\ UNCHANGED <<old, written, ht, cacheVars, peerVars, aggVars, setVars>>

\* case err := <-errc
SelectErrc ==
    /\ hs.st = "wait"
    /\ hs.errc # <<>>
    /\ LET err == Head(hs.errc)
       IN hs' = IF err # Nil
                THEN [hs EXCEPT !.errc = Tail(@), !.st = "done", !.ret = err,
                                !.tmr = "stopped"]
                ELSE [hs EXCEPT !.errc = Tail(@), !.i = @ + 1,
                                !.st = IF hs.i + 1 = 2 THEN "commit" ELSE "wait"]
    /\ UNCHANGED <<old, written, ht, cacheVars, peerVars, aggVars, setVars>>

\* The timeout case returning no error.
TimeoutResultNil == Nil

\* What Handshake returns from the timeout case.
TimeoutResult == DiscReadTimeout

\* case <-timeout.C
SelectTimeout ==
    /\ hs.st = "wait"
    /\ hs.tmr = "fired"
    /\ hs' = [hs EXCEPT !.st = "done", !.ret = TimeoutResult, !.tmr = "stopped"]
    /\ UNCHANGED <<old, written, ht, cacheVars, peerVars, aggVars, setVars>>

\* p.td, p.head = status.TD, status.CurrentBlock: two stores made without
\* the peer's lock, td first.
CommitTd ==
    /\ hs.st = "commit"
    /\ td' = [td EXCEPT ![hs.peer] = hs.status.TD]
    /\ hs' = [hs EXCEPT !.st = "commit2"]
    /\ UNCHANGED <<head, pgenesis, plock, old, written, ht, cacheVars, aggVars,
                   setVars>>

CommitHead ==
    /\ hs.st = "commit2"
    /\ head' = [head EXCEPT ![hs.peer] = hs.status.CurrentBlock]
    /\ hs' = [hs EXCEPT !.st = "done", !.ret = Nil, !.tmr = "stopped"]
    /\ written' = written \cup {<<hs.status.CurrentBlock, hs.status.TD>>}
    /\ UNCHANGED <<td, pgenesis, plock, old, ht, cacheVars, aggVars, setVars>>

\* ------------------------------------------------------------------------
\* Head() and SetHead(), called by tasks of their own
\* ------------------------------------------------------------------------
HeadTasks == {"t1", "t2"}

\* A task calling Head or SetHead: where it is, its arguments and locals, and
\* what Head returned (res, once calls = 1).
NoResult == <<ZeroHash, NilTD>>

IdleTask ==
    [pc |-> "idle", peer |-> NoPeer, hash |-> ZeroHash, tdv |-> NilTD,
     res |-> NoResult, calls |-> 0]

InitHt == ht = [t \in HeadTasks |-> IdleTask]

\* Head: p.lock.RLock()
HeadRLock(t, p) ==
    /\ ht[t].pc = "idle"
    /\ plock[p].w = Nil /\ plock[p].q = {}
    /\ plock' = [plock EXCEPT ![p].r = @ \cup {t}]
    /\ ht' = [ht EXCEPT ![t] = [IdleTask EXCEPT !.pc = "rlocked", !.peer = p]]
    /\ UNCHANGED <<head, td, pgenesis, hs, old, written, cacheVars, aggVars, setVars>>

\* Head: copy(hash[:], p.head[:])
HeadCopyHash(t) ==
    /\ ht[t].pc = "rlocked"
    /\ ht' = [ht EXCEPT ![t].pc = "copied", ![t].hash = head[ht[t].peer]]
    /\ UNCHANGED <<peerVars, hs, old, written, cacheVars, aggVars, setVars>>

\* Head: return hash, nil or new(big.Int).Set(p.td); deferred RUnlock
HeadReturn(t) ==
    /\ ht[t].pc = "copied"
    /\ ht' = [ht EXCEPT ![t].pc = "idle", ![t].calls = 1,
                         ![t].res = <<ht[t].hash, td[ht[t].peer]>>]
    /\ plock' = [plock EXCEPT ![ht[t].peer].r = @ \ {t}]
    /\ UNCHANGED <<head, td, pgenesis, hs, old, written, cacheVars, aggVars, setVars>>

\* The (hash, td) arguments SetHead is called with.
SetHeadArgs == {<<"h1", 7>>, <<"h2", 8>>}

\* SetHead: p.lock.Lock()
SetHeadLock(t, p, hash, tdv) ==
    /\ ht[t].pc = "idle"
    /\ plock[p].w = Nil /\ plock[p].r = {}
    /\ plock' = [plock EXCEPT ![p].w = t]
    /\ ht' = [ht EXCEPT ![t] = [IdleTask EXCEPT !.pc = "wlocked", !.peer = p,
                                                !.hash = hash, !.tdv = tdv]]
    /\ UNCHANGED <<head, td, pgenesis, hs, old, written, cacheVars, aggVars, setVars>>

\* SetHead: copy(p.head[:], hash[:])
SetHeadCopy(t) ==
    /\ ht[t].pc = "wlocked"
    /\ head' = [head EXCEPT ![ht[t].peer] = ht[t].hash]
    /\ ht' = [ht EXCEPT ![t].pc = "wrote"]
    /\ UNCHANGED <<td, pgenesis, plock, hs, old, written, cacheVars, aggVars, setVars>>

\* SetHead: p.td.Set(td); deferred Unlock
SetHeadSet(t) ==
    /\ ht[t].pc = "wrote"
    /\ td' = [td EXCEPT ![ht[t].peer] = ht[t].tdv]
    /\ plock' = [plock EXCEPT ![ht[t].peer].w = Nil]
    /\ written' = written \cup {<<ht[t].hash, ht[t].tdv>>}
    /\ ht' = [ht EXCEPT ![t].pc = "idle"]
    /\ UNCHANGED <<head, pgenesis, hs, old, cacheVars, aggVars, setVars>>

\* SetGenesis(g) from Lock to the deferred Unlock: p.genesis = g
SetGenesis(p, g) ==
    /\ plock[p].w = Nil /\ plock[p].r = {}
    /\ pgenesis' = [pgenesis EXCEPT ![p] = g]
    /\ UNCHANGED <<head, td, plock, hsVars, cacheVars, aggVars, setVars>>

\* ------------------------------------------------------------------------
\* PeerSet
\* ------------------------------------------------------------------------
\* Peer.id: the identity of a peer object; two objects share each identity.
PeerId(p) == (p + 1) \div 2

PeerIds == {PeerId(p) : p \in PeerObjs}

\* What a registry operation returned: the operation, its peer or identity
\* argument, its hash argument, the error, the peer or number returned and
\* the list of peers returned.
Result(op, arg, err, val) ==
    [op |-> op, arg |-> arg, hash |-> ZeroHash, err |-> err, val |-> val,
     list |-> <<>>]

\* NewPeerSet
InitSet ==
    /\ peers = << >>
    /\ closed = FALSE
    /\ ret = Result("none", 0, Nil, 0)

\* ps.peers[id]: nil for an absent key
Lookup(id) == IF id \in DOMAIN peers THEN peers[id] ELSE NoPeer

\* Register with the duplicate check made before the closed check.
RegisterDupFirst(p) ==
    /\ IF PeerId(p) \in DOMAIN peers
       THEN ret' = Result("Register", p, errAlreadyRegistered, 0)
            /\ UNCHANGED peers
       ELSE IF closed
       THEN ret' = Result("Register", p, errClosed, 0)
            /\ UNCHANGED peers
       ELSE /\ peers' = [i \in DOMAIN peers \cup {PeerId(p)} |->
                           IF i = PeerId(p) THEN p ELSE peers[i]]
            /\ ret' = Result("Register", p, Nil, 0)
    /\ UNCHANGED <<closed, lockVars, cacheVars, peerVars, hsVars,
                   aggVars>>

\* Register without the check for a registered identity.
RegisterOverwrite(p) ==
    /\ IF closed
       THEN ret' = Result("Register", p, errClosed, 0)
            /\ UNCHANGED peers
       ELSE /\ peers' = [i \in DOMAIN peers \cup {PeerId(p)} |->
                           IF i = PeerId(p) THEN p ELSE peers[i]]
            /\ ret' = Result("Register", p, Nil, 0)
    /\ UNCHANGED <<closed, lockVars, cacheVars, peerVars, hsVars,
                   aggVars>>

\* Register, under ps.lock
Register(p) ==
    /\ IF closed
       THEN ret' = Result("Register", p, errClosed, 0)
            /\ UNCHANGED peers
       ELSE IF PeerId(p) \in DOMAIN peers
       THEN ret' = Result("Register", p, errAlreadyRegistered, 0)
            /\ UNCHANGED peers
       ELSE /\ peers' = [i \in DOMAIN peers \cup {PeerId(p)} |->
                           IF i = PeerId(p) THEN p ELSE peers[i]]
            /\ ret' = Result("Register", p, Nil, 0)
    /\ UNCHANGED <<closed, lockVars, cacheVars, peerVars, hsVars,
                   aggVars>>

\* Unregister reporting success for an identity that is not registered.
UnregisterQuiet(id) ==
    /\ peers' = [i \in DOMAIN peers \ {id} |-> peers[i]]
    /\ ret' = Result("Unregister", id, Nil, 0)
    /\ UNCHANGED <<closed, lockVars, cacheVars, peerVars, hsVars,
                   aggVars>>

\* Unregister, under ps.lock
Unregister(id) ==
    /\ IF id \notin DOMAIN peers
       THEN ret' = Result("Unregister", id, errNotRegistered, 0)
            /\ UNCHANGED peers
       ELSE /\ peers' = [i \in DOMAIN peers \ {id} |-> peers[i]]
            /\ ret' = Result("Unregister", id, Nil, 0)
    /\ UNCHANGED <<closed, lockVars, cacheVars, peerVars, hsVars,
                   aggVars>>

\* Close, which the source keeps in a comment: under ps.lock, disconnects
\* every peer and sets closed; the map is left as it is.
Close ==
    /\ closed' = TRUE
    /\ ret' = Result("Close", 0, Nil, 0)
    /\ UNCHANGED <<peers, lockVars, cacheVars, peerVars, hsVars, aggVars>>

\* Peer(id), under ps.lock (read)
Peer(id) ==
    /\ ret' = Result("Peer", id, Nil, Lookup(id))
    /\ UNCHANGED <<peers, closed, lockVars, cacheVars, peerVars, hsVars,
                   aggVars>>

\* Len(), under ps.lock (read)
PeerSetLen ==
    /\ ret' = Result("Len", 0, Nil, Cardinality(DOMAIN peers))
    /\ UNCHANGED <<peers, closed, lockVars, cacheVars, peerVars, hsVars,
                   aggVars>>

\* The orders in which a range over a Go map may visit the members of S.
RECURSIVE Orders(_)
Orders(S) ==
    IF S = {} THEN {<<>>}
    ELSE UNION {{<<x>> \o o : o \in Orders(S \ {x})} : x \in S}

\* The peers in the map
Registered == {peers[i] : i \in DOMAIN peers}

\* The replacement test without its first disjunct.
BestReplacesStrict(t, bestPeer, bestTd) == t > bestTd

\* BestPeer: if bestPeer == nil || td.Cmp(bestTd) > 0
BestReplaces(t, bestPeer, bestTd) == bestPeer = NoPeer \/ t > bestTd

\* BestPeer's loop, visiting the peers in the given order.
RECURSIVE BestScan(_, _, _)
BestScan(order, bestPeer, bestTd) ==
    IF order = <<>> THEN bestPeer
    ELSE LET p == Head(order)
             t == td[p]
         IN IF p = NoPeer THEN BestScan(Tail(order), bestPeer, bestTd)
            ELSE IF t = NilTD THEN BestScan(Tail(order), bestPeer, bestTd)
            ELSE LET bt == IF bestTd = NilTD THEN t ELSE bestTd
                 IN IF BestReplaces(t, bestPeer, bt)
                    THEN BestScan(Tail(order), p, t)
                    ELSE BestScan(Tail(order), bestPeer, bt)

\* BestPeer, under ps.lock (read); each p.Head() takes p's lock (read).
BestPeer ==
    /\ \A p \in Registered : plock[p].w = Nil
    /\ \E order \in Orders(Registered) :
          ret' = Result("BestPeer", 0, Nil, BestScan(order, NoPeer, NilTD))
    /\ UNCHANGED <<peers, closed, lockVars, cacheVars, peerVars, hsVars,
                   aggVars>>

\* The loop with the membership test not negated.
RECURSIVE With(_, _, _)
With(order, cache, hash) ==
    IF order = <<>> THEN <<>>
    ELSE (IF Has(cache[Head(order)], hash) THEN <<Head(order)>> ELSE <<>>)
         \o With(Tail(order), cache, hash)

\* The loop of PeersWithoutBlock / PeersWithoutTx over the peers in the
\* given order: if !p.known.Has(hash) { list = append(list, p) }
RECURSIVE Without(_, _, _)
Without(order, cache, hash) ==
    IF order = <<>> THEN <<>>
    ELSE (IF ~Has(cache[Head(order)], hash) THEN <<Head(order)>> ELSE <<>>)
         \o Without(Tail(order), cache, hash)

\* PeersWithoutBlock, under ps.lock (read)
PeersWithoutBlock(hash) ==
    /\ \E order \in Orders(Registered) :
          ret' = [Result("PeersWithoutBlock", 0, Nil, 0) EXCEPT
                    !.hash = hash, !.list = Without(order, knownBlocks, hash)]
    /\ UNCHANGED <<peers, closed, lockVars, cacheVars, peerVars, hsVars,
                   aggVars>>

\* PeersWithoutTx, under ps.lock (read)
PeersWithoutTx(hash) ==
    /\ \E order \in Orders(Registered) :
          ret' = [Result("PeersWithoutTx", 0, Nil, 0) EXCEPT
                    !.hash = hash, !.list = Without(order, knownTxs, hash)]
    /\ UNCHANGED <<peers, closed, lockVars, cacheVars, peerVars, hsVars,
                   aggVars>>

\* ------------------------------------------------------------------------
\* The aggregator: proxy.Start's merge loop
\* ------------------------------------------------------------------------
\* common.Hash.Hex()
Hex(h) == "0x" \o h

\* The chain-state observations sent on bestStateChan.  A nil TD is a value
\* of the channel's type.
StateObs ==
    {[ProtocolVersion |-> gversion, NetworkId |-> gnetworkid, TD |-> t,
      CurrentBlock |-> "h2", GenesisBlock |-> g] :
        t \in {startTD - 2, startTD + 1, startTD + 5, NilTD},
        g \in {genesis, "h1"}}

\* The height observations sent on bestHeiChan and bestHeiChan2.
HeiObs == {[bestHei |-> n, p |-> q] : n \in 1..MaxHei, q \in {1, 2}}

ZeroHei == [bestHei |-> 0, p |-> NoPeer]

\* The zero types.Header: its Number is a nil pointer.
ZeroHeader == [Number |-> NilTD]

\* The header batches sent on bestHeaderChan, a header being its Number.
HeaderBatches ==
    {<<>>} \cup {<<[Number |-> a]>> : a \in {1, NilTD}}
           \cup {<<[Number |-> a], [Number |-> b]>> : a \in {NilTD, 2}, b \in {1}}

\* test2: the proxy as constructed
InitialBestState ==
    [ProtocolVersion |-> gversion, NetworkId |-> gnetworkid, TD |-> startTD,
     CurrentBlock |-> startBlock, GenesisBlock |-> genesis]

\* What the merge loop keeps of an observation it received.
Seen(o) == [TD |-> o.TD, GenesisBlock |-> o.GenesisBlock]

InitAgg ==
    /\ bestState = InitialBestState
    /\ bestHeiAndPeer = ZeroHei
    /\ bestHeiAndPeer2 = ZeroHei
    /\ aggPc = "select"
    /\ seen = {}
    /\ pulls = 0
    /\ bestStateOld = InitialBestState
    /\ bestHeiAndPeerOld = ZeroHei
    /\ bestHeader = ZeroHeader

\* The test with >= in place of >.
HeiReplacesOrEqual(hei, cur) == hei.bestHei >= cur.bestHei

\* if hei.bestHei > pxy.bestHeiAndPeer.bestHei
HeiReplaces(hei, cur) == hei.bestHei > cur.bestHei

\* The record a height case leaves in its field.
MergeHei(hei, cur) == IF HeiReplaces(hei, cur) THEN hei ELSE cur

\* case hei, ok := <-pxy.bestHeiChan
RecvBestHei(hei) ==
    /\ aggPc = "select"
    /\ bestHeiAndPeer' = MergeHei(hei, bestHeiAndPeer)
    /\ UNCHANGED <<bestHeader, bestState, bestHeiAndPeer2, aggPc, seen, pulls, bestStateOld,
                   bestHeiAndPeerOld, cacheVars, peerVars, hsVars, setVars>>

\* case hei, ok := <-pxy.bestHeiChan2
RecvBestHei2(hei) ==
    /\ aggPc = "select"
    /\ bestHeiAndPeer2' = MergeHei(hei, bestHeiAndPeer2)
    /\ UNCHANGED <<bestHeader, bestState, bestHeiAndPeer, aggPc, seen, pulls, bestStateOld,
                   bestHeiAndPeerOld, cacheVars, peerVars, hsVars, setVars>>

\* The condition with Cmp(...) != 0 in place of Cmp(...) > 0.
ReplacesIfDifferent(beststate, cur) ==
    beststate.TD # cur.TD /\ Hex(beststate.GenesisBlock) = Hex(genesis)

\* The condition without the genesis comparison.
ReplacesNoGenesis(beststate, cur) == beststate.TD > cur.TD

\* The condition of the bestStateChan case.
Replaces(beststate, cur) ==
    beststate.TD > cur.TD /\ Hex(beststate.GenesisBlock) = Hex(genesis)

\* The record the bestStateChan case leaves in pxy.bestState, for an
\* observation with a total difficulty.
MergeState(beststate, cur) ==
    IF Replaces(beststate, cur) THEN beststate ELSE cur

\* case beststate, ok := <-pxy.bestStateChan.  big.Int.Cmp on a nil
\* receiver dereferences nil: the task panics.
RecvBestState(beststate) ==
    /\ aggPc = "select"
    /\ seen' = seen \cup {Seen(beststate)}
    /\ IF beststate.TD = NilTD
       THEN aggPc' = "panicked" /\ UNCHANGED bestState
       ELSE /\ bestState' = MergeState(beststate, bestState)
            /\ UNCHANGED aggPc
    /\ UNCHANGED <<bestHeader, bestHeiAndPeer, bestHeiAndPeer2, pulls, bestStateOld,
                   bestHeiAndPeerOld, cacheVars, peerVars, hsVars, setVars>>

\* for _, h := range bestheaders: the headers kept and whether the loop got
\* through.  big.Int.Cmp dereferences a nil operand; with both operands nil
\* it panics or returns 0, depending on the Go release.
RECURSIVE MergeHeaders(_, _)
MergeHeaders(batch, cur) ==
    IF batch = <<>> THEN {[hdr |-> cur, ok |-> TRUE]}
    ELSE LET h == Head(batch)
         IN IF h.Number = NilTD /\ cur.Number = NilTD
            THEN {[hdr |-> cur, ok |-> FALSE]} \cup MergeHeaders(Tail(batch), cur)
            ELSE IF h.Number = NilTD \/ cur.Number = NilTD
            THEN {[hdr |-> cur, ok |-> FALSE]}
            ELSE MergeHeaders(Tail(batch),
                              IF h.Number > cur.Number THEN h ELSE cur)

\* case bestheaders, ok := <-pxy.bestHeaderChan
RecvBestHeaders(bestheaders) ==
    /\ aggPc = "select"
    /\ \E r \in MergeHeaders(bestheaders, bestHeader) :
          /\ bestHeader' = r.hdr
          /\ aggPc' = IF r.ok THEN aggPc ELSE "panicked"
    /\ UNCHANGED <<bestState, bestHeiAndPeer, bestHeiAndPeer2, seen, pulls,
                   bestStateOld, bestHeiAndPeerOld,
                   cacheVars, peerVars, hsVars, setVars>>

\* The tasks that are at a receive from hackChan, which is unbuffered: the
\* merge loop's <-pxy.hackChan is the only receive from it.
HackReceivers == IF aggPc = "hackRecv" THEN {"loop"} ELSE {}

\* test2's proxy before Start is called.
InitProxy ==
    /\ bestState = InitialBestState
    /\ bestHeiAndPeer = ZeroHei
    /\ bestHeiAndPeer2 = ZeroHei
    /\ bestHeader = ZeroHeader
    /\ aggPc = "new"
    /\ seen = {}
    /\ pulls = 0
    /\ bestStateOld = InitialBestState
    /\ bestHeiAndPeerOld = ZeroHei

\* Start: the two tickers, pxy.hackChan <- true, then go func() { for ... }.
\* The send returns when a task receives; with none receiving Start stays at
\* the send and the loop is not started.
Start ==
    /\ aggPc = "new"
    /\ aggPc' = IF HackReceivers # {} THEN "select" ELSE "hackSend"
    /\ UNCHANGED <<bestHeader, bestState, bestHeiAndPeer, bestHeiAndPeer2, seen, pulls,
                   bestStateOld, bestHeiAndPeerOld,
                   cacheVars, peerVars, hsVars, setVars>>

\* case <-tick: the loop waits to receive from hackChan
Tick ==
    /\ aggPc = "select"
    /\ aggPc' = "hackRecv"
    /\ UNCHANGED <<bestHeader, bestState, bestHeiAndPeer, bestHeiAndPeer2, seen, pulls,
                   bestStateOld, bestHeiAndPeerOld,
                   cacheVars, peerVars, hsVars, setVars>>

\* <-pxy.hackChan returns when another task sends; go pxy.startHack()
HackRecv ==
    /\ aggPc = "hackRecv"
    /\ aggPc' = "select"
    /\ UNCHANGED <<bestHeader, bestState, bestHeiAndPeer, bestHeiAndPeer2, seen, pulls,
                   bestStateOld, bestHeiAndPeerOld,
                   cacheVars, peerVars, hsVars, setVars>>

\* case <-tickPullBestBlock: go pxy.pullBestBlock()
TickPullBestBlock ==
    /\ aggPc = "select"
    /\ pulls < MaxPulls
    /\ pulls' = pulls + 1
    /\ UNCHANGED <<bestHeader, bestState, bestHeiAndPeer, bestHeiAndPeer2, aggPc, seen,
                   bestStateOld, bestHeiAndPeerOld,
                   cacheVars, peerVars, hsVars, setVars>>

\* pullBestBlock storing the best peer's difficulty in the best state.
pullBestBlockStores ==
    /\ pulls > 0
    /\ pulls' = pulls - 1
    /\ \E bp \in {BestScan(order, NoPeer, NilTD) : order \in Orders(Registered)} :
          bestState' = IF bp = NoPeer THEN bestState
                       ELSE [bestState EXCEPT !.TD = td[bp]]
    /\ UNCHANGED <<bestHeader, bestHeiAndPeer, bestHeiAndPeer2, aggPc, seen,
                   bestStateOld, bestHeiAndPeerOld, peerVars,
                   cacheVars, hsVars, setVars>>

\* pullBestBlock unregistering the peer whose Handshake failed.
pullBestBlockDrops ==
    /\ pulls > 0
    /\ pulls' = pulls - 1
    /\ \E bp \in {BestScan(order, NoPeer, NilTD) : order \in Orders(Registered)} :
          LET pp == IF bp = NoPeer THEN NoPeer ELSE Lookup(PeerId(bp))
          IN IF bp = NoPeer \/ pp = NoPeer
             THEN /\ ret' = Result("pullBestBlock", bp, "none", pp)
                  /\ UNCHANGED <<head, td, peers>>
             ELSE \E o \in HandshakeOutcomes(bp, gnetworkid, pgenesis[pp]) :
                     /\ ret' = Result("pullBestBlock", bp, o.err, pp)
                     /\ IF o.ok
                        THEN /\ td' = [td EXCEPT ![bp] = o.status.TD]
                             /\ head' = [head EXCEPT ![bp] = o.status.CurrentBlock]
                             /\ UNCHANGED peers
                        ELSE /\ peers' = [i \in DOMAIN peers \ {PeerId(bp)} |->
                                            peers[i]]
                             /\ UNCHANGED <<head, td>>
    /\ UNCHANGED <<bestHeader, bestState, bestHeiAndPeer, bestHeiAndPeer2, aggPc,
                   seen, bestStateOld, bestHeiAndPeerOld, pgenesis, plock,
                   cacheVars, hsVars, closed, lockVars>>

\* pullBestBlock run to its end: BestPeer, AllPeer and the lookup, Head,
\* Genesis and Handshake, which stores the status it read when it succeeds.
\* It assigns no field of the proxy.  ret records what it did: the best
\* peer, the registry's entry for it, and what Handshake returned ("none"
\* when Handshake was not called).
pullBestBlock ==
    /\ pulls > 0
    /\ pulls' = pulls - 1
    /\ \E bp \in {BestScan(order, NoPeer, NilTD) : order \in Orders(Registered)} :
          LET pp == IF bp = NoPeer THEN NoPeer ELSE Lookup(PeerId(bp))
          IN IF bp = NoPeer \/ pp = NoPeer
             THEN /\ ret' = Result("pullBestBlock", bp, "none", pp)
                  /\ UNCHANGED <<head, td>>
             ELSE \E o \in HandshakeOutcomes(bp, gnetworkid, pgenesis[pp]) :
                     /\ ret' = Result("pullBestBlock", bp, o.err, pp)
                     /\ IF o.ok
                        THEN /\ td' = [td EXCEPT ![bp] = o.status.TD]
                             /\ head' = [head EXCEPT ![bp] = o.status.CurrentBlock]
                        ELSE UNCHANGED <<head, td>>
    /\ UNCHANGED <<bestHeader, bestState, bestHeiAndPeer, bestHeiAndPeer2, aggPc,
                   seen, bestStateOld, bestHeiAndPeerOld, pgenesis, plock,
                   cacheVars, hsVars, peers, closed, lockVars>>

\* The earlier copy of proxy.Start (src/main.go lines 114-139).
OldRecvBestHei(hei) ==
    /\ aggPc = "select"
    /\ bestHeiAndPeerOld' =
          IF HeiReplaces(hei, bestHeiAndPeerOld) THEN hei ELSE bestHeiAndPeerOld
    /\ UNCHANGED <<bestHeader, bestState, bestHeiAndPeer, bestHeiAndPeer2, aggPc,
                   seen, pulls, bestStateOld, cacheVars, peerVars, hsVars, setVars>>

\* The bestStateChan case of the earlier copy: the total difficulties are
\* compared and nothing else.
OldRecvBestState(beststate) ==
    /\ aggPc = "select"
    /\ seen' = seen \cup {Seen(beststate)}
    /\ IF beststate.TD = NilTD
       THEN aggPc' = "panicked" /\ UNCHANGED bestStateOld
       ELSE /\ bestStateOld' = IF beststate.TD > bestStateOld.TD
                               THEN beststate ELSE bestStateOld
            /\ UNCHANGED aggPc
    /\ UNCHANGED <<bestHeader, bestState, bestHeiAndPeer, bestHeiAndPeer2, pulls,
                   bestHeiAndPeerOld, cacheVars, peerVars, hsVars, setVars>>

\* case <-tick: prints the two records
OldTick == UNCHANGED vars

\* ------------------------------------------------------------------------
\* The methods lock by lock: tasks running PeerSet and Peer methods and
\* pullBestBlock concurrently.  A method is the sequence of its lock
\* operations and of its accesses to the map and to a peer's fields; a task
\* runs the sequence one instruction at a time.
\* ------------------------------------------------------------------------
LockTasks == {"pull", "reg", "hd"}

\* An instruction: what is done and the peer or identity it is done to.
I(i, a) == [i |-> i, a |-> a]

\* Register: Lock, defer Unlock, test and store
RegisterProg(p) ==
    <<I("LockWant", 0), I("Lock", 0), I("Store", p), I("Unlock", 0)>>

\* Unregister: Lock, defer Unlock, test and delete
UnregisterProg(id) ==
    <<I("LockWant", 0), I("Lock", 0), I("Delete", id), I("Unlock", 0)>>

\* Peer, Len, PeersWithoutBlock, PeersWithoutTx, AllPeer: RLock, defer
\* RUnlock, read the map
ReadProg == <<I("RLock", 0), I("Read", 0), I("RUnlock", 0)>>

\* Head without the deferred unlock.
HeadProgNoUnlock(p) == <<I("PRLock", p), I("ReadHead", p)>>

\* Head: RLock, defer RUnlock, read head and td
HeadProg(p) == <<I("PRLock", p), I("ReadHead", p), I("PRUnlock", p)>>

\* SetHead: Lock, defer Unlock, write head and td
SetHeadProg(p) ==
    <<I("PLockWant", p), I("PLock", p), I("WriteHead", p), I("PUnlock", p)>>

\* SetGenesis: Lock, defer Unlock, write genesis
SetGenesisProg(p) ==
    <<I("PLockWant", p), I("PLock", p), I("WriteGenesis", p), I("PUnlock", p)>>

\* Genesis: Lock, defer Unlock, read genesis
GenesisProg(p) ==
    <<I("PLockWant", p), I("PLock", p), I("ReadGenesis", p), I("PUnlock", p)>>

\* BestPeer's loop over the peers in the given order: p.Head(), then the
\* comparison
RECURSIVE ScanProg(_)
ScanProg(order) ==
    IF order = <<>> THEN <<>>
    ELSE HeadProg(Head(order)) \o <<I("Best", Head(order))>>
         \o ScanProg(Tail(order))

\* BestPeer: RLock, defer RUnlock, the loop
BestPeerProg == <<I("RLock", 0), I("Range", 0), I("RUnlock", 0)>>

\* pullBestBlock: BestPeer, then (in IfBest) AllPeer and the lookup in the
\* map it returned, then (in Index) Head, Genesis and Handshake
pullBestBlockProg == BestPeerProg \o <<I("IfBest", 0)>>

IdleLt ==
    [op |-> "none", prog |-> <<>>, best |-> NoPeer, bestTd |-> NilTD,
     pp |-> NoPeer, hash |-> ZeroHash, tdv |-> NilTD, gene |-> ZeroHash,
     acc |-> "none"]

InitLock ==
    /\ slock = [w |-> Nil, q |-> {}, r |-> {}]
    /\ lt = [t \in LockTasks |-> IdleLt]

\* Whether the task holds the set lock, and the peer locks it holds.
HoldsSet(t) == slock.w = t \/ t \in slock.r

HeldPeers(t) == {p \in PeerObjs : plock[p].w = t \/ t \in plock[p].r}

\* How a map access of the task stands to the set lock.
Acc(t) ==
    IF HoldsSet(t) THEN "locked"
    ELSE IF slock.w # Nil THEN "raced" ELSE "unlocked"

\* sync.RWMutex: Lock waits for the writer and the readers to leave; RLock
\* waits while a writer holds the lock or waits for it.
Ready(t) ==
    LET n == Head(lt[t].prog)
    IN CASE n.i = "Lock" -> slock.w = Nil /\ slock.r = {}
         [] n.i = "RLock" -> slock.w = Nil /\ slock.q = {}
         [] n.i = "PLock" -> plock[n.a].w = Nil /\ plock[n.a].r = {}
         [] n.i = "PRLock" -> plock[n.a].w = Nil /\ plock[n.a].q = {}
         [] OTHER -> TRUE

\* The task is at instruction i and can execute it.
At(t, i) == lt[t].prog # <<>> /\ Head(lt[t].prog).i = i /\ Ready(t)

\* A task calls a method.
Call(t, op, prog, hash, tdv) ==
    /\ lt[t].prog = <<>>
    /\ nops < MaxOps
    /\ nops' = nops + 1
    /\ lt' = [lt EXCEPT ![t] = [IdleLt EXCEPT !.op = op, !.prog = prog,
                                              !.hash = hash, !.tdv = tdv]]
    /\ UNCHANGED <<slock, peers, closed, ret, knownBlocks, knownTxs, peerVars,
                   hsVars, aggVars>>

\* ps.lock.Lock() is entered: readers arriving from now on wait
SetLockWant(t) ==
    /\ At(t, "LockWant")
    /\ slock' = [slock EXCEPT !.q = @ \cup {t}]
    /\ lt' = [lt EXCEPT ![t].prog = Tail(@)]
    /\ UNCHANGED <<peers, closed, ret, cacheVars, peerVars, hsVars, aggVars>>

\* ps.lock.Lock() returns
SetLock(t) ==
    /\ At(t, "Lock")
    /\ slock' = [slock EXCEPT !.w = t, !.q = @ \ {t}]
    /\ lt' = [lt EXCEPT ![t].prog = Tail(@)]
    /\ UNCHANGED <<peers, closed, ret, cacheVars, peerVars, hsVars, aggVars>>

\* ps.lock.Unlock()
SetUnlock(t) ==
    /\ At(t, "Unlock")
    /\ slock' = [slock EXCEPT !.w = Nil]
    /\ lt' = [lt EXCEPT ![t].prog = Tail(@)]
    /\ UNCHANGED <<peers, closed, ret, cacheVars, peerVars, hsVars, aggVars>>

\* ps.lock.RLock()
SetRLock(t) ==
    /\ At(t, "RLock")
    /\ slock' = [slock EXCEPT !.r = @ \cup {t}]
    /\ lt' = [lt EXCEPT ![t].prog = Tail(@)]
    /\ UNCHANGED <<peers, closed, ret, cacheVars, peerVars, hsVars, aggVars>>

\* ps.lock.RUnlock()
SetRUnlock(t) ==
    /\ At(t, "RUnlock")
    /\ slock' = [slock EXCEPT !.r = @ \ {t}]
    /\ lt' = [lt EXCEPT ![t].prog = Tail(@)]
    /\ UNCHANGED <<peers, closed, ret, cacheVars, peerVars, hsVars, aggVars>>

\* p.lock.Lock() is entered
PeerLockWant(t) ==
    /\ At(t, "PLockWant")
    /\ plock' = [plock EXCEPT ![Head(lt[t].prog).a].q = @ \cup {t}]
    /\ lt' = [lt EXCEPT ![t].prog = Tail(@)]
    /\ UNCHANGED <<head, td, pgenesis, slock, peers, closed, ret, cacheVars,
                   hsVars, aggVars>>

\* p.lock.Lock() returns
PeerLock(t) ==
    /\ At(t, "PLock")
    /\ plock' = [plock EXCEPT ![Head(lt[t].prog).a].w = t,
                              ![Head(lt[t].prog).a].q = @ \ {t}]
    /\ lt' = [lt EXCEPT ![t].prog = Tail(@)]
    /\ UNCHANGED <<head, td, pgenesis, slock, peers, closed, ret, cacheVars,
                   hsVars, aggVars>>

\* p.lock.Unlock()
PeerUnlock(t) ==
    /\ At(t, "PUnlock")
    /\ plock' = [plock EXCEPT ![Head(lt[t].prog).a].w = Nil]
    /\ lt' = [lt EXCEPT ![t].prog = Tail(@)]
    /\ UNCHANGED <<head, td, pgenesis, slock, peers, closed, ret, cacheVars,
                   hsVars, aggVars>>

\* p.lock.RLock()
PeerRLock(t) ==
    /\ At(t, "PRLock")
    /\ plock' = [plock EXCEPT ![Head(lt[t].prog).a].r = @ \cup {t}]
    /\ lt' = [lt EXCEPT ![t].prog = Tail(@)]
    /\ UNCHANGED <<head, td, pgenesis, slock, peers, closed, ret, cacheVars,
                   hsVars, aggVars>>

\* p.lock.RUnlock()
PeerRUnlock(t) ==
    /\ At(t, "PRUnlock")
    /\ plock' = [plock EXCEPT ![Head(lt[t].prog).a].r = @ \ {t}]
    /\ lt' = [lt EXCEPT ![t].prog = Tail(@)]
    /\ UNCHANGED <<head, td, pgenesis, slock, peers, closed, ret, cacheVars,
                   hsVars, aggVars>>

\* Register: the closed test, the lookup and ps.peers[p.id] = p
MapStore(t) ==
    /\ At(t, "Store")
    /\ LET p == Head(lt[t].prog).a
       IN peers' = IF closed \/ PeerId(p) \in DOMAIN peers THEN peers
                   ELSE [i \in DOMAIN peers \cup {PeerId(p)} |->
                           IF i = PeerId(p) THEN p ELSE peers[i]]
    /\ lt' = [lt EXCEPT ![t].prog = Tail(@), ![t].acc = Acc(t)]
    /\ UNCHANGED <<slock, closed, ret, cacheVars, peerVars, hsVars, aggVars>>

\* Unregister: the lookup and delete(ps.peers, id)
MapDelete(t) ==
    /\ At(t, "Delete")
    /\ peers' = [i \in DOMAIN peers \ {Head(lt[t].prog).a} |-> peers[i]]
    /\ lt' = [lt EXCEPT ![t].prog = Tail(@), ![t].acc = Acc(t)]
    /\ UNCHANGED <<slock, closed, ret, cacheVars, peerVars, hsVars, aggVars>>

\* Peer, Len, PeersWithoutBlock, PeersWithoutTx, AllPeer: the map is read
MapRead(t) ==
    /\ At(t, "Read")
    /\ lt' = [lt EXCEPT ![t].prog = Tail(@), ![t].acc = Acc(t)]
    /\ UNCHANGED <<slock, peers, closed, ret, cacheVars, peerVars, hsVars, aggVars>>

\* BestPeer: for _, p := range ps.peers
MapRange(t) ==
    /\ At(t, "Range")
    /\ \E order \in Orders(Registered) :
          lt' = [lt EXCEPT ![t].prog = ScanProg(order) \o Tail(@),
                           ![t].acc = Acc(t)]
    /\ UNCHANGED <<slock, peers, closed, ret, cacheVars, peerVars, hsVars, aggVars>>

\* Head: the copies of p.head and p.td
ReadHead(t) ==
    /\ At(t, "ReadHead")
    /\ lt' = [lt EXCEPT ![t].prog = Tail(@),
                        ![t].hash = head[Head(lt[t].prog).a],
                        ![t].tdv = td[Head(lt[t].prog).a]]
    /\ UNCHANGED <<slock, peers, closed, ret, cacheVars, peerVars, hsVars, aggVars>>

\* BestPeer: the tests that follow p.Head()
Best(t) ==
    /\ At(t, "Best")
    /\ LET p == Head(lt[t].prog).a
           x == lt[t].tdv
           bt == IF lt[t].bestTd = NilTD THEN x ELSE lt[t].bestTd
       IN lt' = IF x = NilTD THEN [lt EXCEPT ![t].prog = Tail(@)]
                ELSE IF BestReplaces(x, lt[t].best, bt)
                THEN [lt EXCEPT ![t].prog = Tail(@), ![t].best = p,
                                ![t].bestTd = x]
                ELSE [lt EXCEPT ![t].prog = Tail(@), ![t].bestTd = bt]
    /\ UNCHANGED <<slock, peers, closed, ret, cacheVars, peerVars, hsVars, aggVars>>

\* SetHead: copy(p.head[:], hash[:]); p.td.Set(td)
WriteHead(t) ==
    /\ At(t, "WriteHead")
    /\ head' = [head EXCEPT ![Head(lt[t].prog).a] = lt[t].hash]
    /\ td' = [td EXCEPT ![Head(lt[t].prog).a] = lt[t].tdv]
    /\ lt' = [lt EXCEPT ![t].prog = Tail(@)]
    /\ UNCHANGED <<pgenesis, plock, slock, peers, closed, ret, cacheVars,
                   hsVars, aggVars>>

\* SetGenesis: p.genesis = g
WriteGenesis(t) ==
    /\ At(t, "WriteGenesis")
    /\ pgenesis' = [pgenesis EXCEPT ![Head(lt[t].prog).a] = lt[t].hash]
    /\ lt' = [lt EXCEPT ![t].prog = Tail(@)]
    /\ UNCHANGED <<head, td, plock, slock, peers, closed, ret, cacheVars,
                   hsVars, aggVars>>

\* Genesis: g = p.genesis
ReadGenesis(t) ==
    /\ At(t, "ReadGenesis")
    /\ lt' = [lt EXCEPT ![t].prog = Tail(@),
                        ![t].gene = pgenesis[Head(lt[t].prog).a]]
    /\ UNCHANGED <<slock, peers, closed, ret, cacheVars, peerVars, hsVars, aggVars>>

\* pullBestBlock: if bp != nil { ... } else { return }, then AllPeer()
IfBest(t) ==
    /\ At(t, "IfBest")
    /\ lt' = [lt EXCEPT ![t].prog =
                 IF lt[t].best = NoPeer THEN <<>>
                 ELSE ReadProg \o <<I("Index", lt[t].best)>>]
    /\ UNCHANGED <<slock, peers, closed, ret, cacheVars, peerVars, hsVars, aggVars>>

\* pullBestBlock: pp, ok := all[bp.P.ID().String()], the map being the
\* registry's own
Index(t) ==
    /\ At(t, "Index")
    /\ LET pp == Lookup(PeerId(Head(lt[t].prog).a))
       IN lt' = [lt EXCEPT ![t].pp = pp, ![t].acc = Acc(t),
                    ![t].prog =
                       IF pp = NoPeer THEN <<>>
                       ELSE HeadProg(pp) \o GenesisProg(pp)
                            \o <<I("Handshake", lt[t].best)>>]
    /\ UNCHANGED <<slock, peers, closed, ret, cacheVars, peerVars, hsVars, aggVars>>

\* pullBestBlock: bp.Handshake(gnetworkid, td, hash, gene) runs to its
\* return; one that succeeds has stored the status it read.
PullHandshake(t) ==
    /\ At(t, "Handshake")
    /\ LET bp == Head(lt[t].prog).a
       IN \E o \in HandshakeOutcomes(bp, gnetworkid, lt[t].gene) :
             IF o.ok
             THEN /\ td' = [td EXCEPT ![bp] = o.status.TD]
                  /\ head' = [head EXCEPT ![bp] = o.status.CurrentBlock]
             ELSE UNCHANGED <<head, td>>
    /\ lt' = [lt EXCEPT ![t].prog = Tail(@)]
    /\ UNCHANGED <<pgenesis, plock, slock, peers, closed, ret, cacheVars,
                   hsVars, aggVars>>

\* A step of a task inside a method.
Step(t) ==
    \/ SetLockWant(t) \/ SetLock(t) \/ SetUnlock(t)
    \/ SetRLock(t) \/ SetRUnlock(t)
    \/ PeerLockWant(t) \/ PeerLock(t) \/ PeerUnlock(t)
    \/ PeerRLock(t) \/ PeerRUnlock(t)
    \/ MapStore(t) \/ MapDelete(t) \/ MapRead(t) \/ MapRange(t)
    \/ ReadHead(t) \/ Best(t) \/ WriteHead(t) \/ WriteGenesis(t)
    \/ ReadGenesis(t) \/ IfBest(t) \/ Index(t) \/ PullHandshake(t)

\* ------------------------------------------------------------------------
\* Specifications
\* ------------------------------------------------------------------------
\* How far below its capacity a cache starts (or it starts empty).
FillGaps == {0, 1, 2}

Filled(n) == [tr |-> {}, anon |-> n]

\* The peers whose caches the cache specification drives.
CachePeers == {1, 2}

\* The known-hash caches: every peer starts with caches that earlier marks
\* of distinct hashes have filled to the same level.
CacheInit ==
    /\ InitPeers /\ InitHs /\ InitHt /\ InitAgg /\ InitSet /\ InitLock
    /\ nops = 0
    /\ \/ InitCaches
       \/ \E d \in FillGaps :
             /\ knownBlocks = [p \in PeerObjs |-> Filled(maxKnownBlocks - d)]
             /\ knownTxs = [p \in PeerObjs |-> Filled(maxKnownTxs - d)]

CacheNext ==
    \E p \in CachePeers :
       \/ \E h \in HashInputs : MarkBlock(p, h)
       \/ \E h \in HashInputs : MarkTransaction(p, h)
       \/ \E txs \in Batches : SendTransactions(p, txs)
       \/ \E hashes \in Batches : SendNewBlockHashes(p, hashes)
       \/ \E h \in HashInputs : SendNewBlock(p, h)

SpecCache == CacheInit /\ [][CacheNext]_vars

Init ==
    InitPeers /\ InitCaches /\ InitHs /\ InitHt /\ InitAgg /\ InitSet /\ InitLock

\* Handshake invocations on peer 1, one after the other, as pullBestBlock
\* makes them: the network id is gnetworkid.
HsNext ==
    \/ HandshakeCall(1, gnetworkid, genesis)
    \/ \E err \in {Nil, SendError} : SendStatus(err)
    \/ \E msg \in Msgs : ReadStatus(msg)
    \/ ReadFail
    \/ OldSendDone
    \/ OldReadDone
    \/ TimerFire
    \/ SelectErrc
    \/ SelectTimeout
    \/ CommitTd
    \/ CommitHead

SpecHandshake == Init /\ [][HsNext]_vars

\* The runtime fires an armed timer and schedules the task running
\* Handshake; the transport promises nothing.
HsFairness ==
    /\ WF_vars(TimerFire)
    /\ WF_vars(SelectErrc)
    /\ WF_vars(SelectTimeout)
    /\ WF_vars(CommitTd)
    /\ WF_vars(CommitHead)

SpecHandshakeFair == SpecHandshake /\ HsFairness

\* The messages that pass readStatus for the handshakes above.
ValidMsgs ==
    {m \in Msgs : readStatus(m, gnetworkid, gversion, genesis).err = Nil}

\* Handshakes on peer 1 together with a task calling Head and a task
\* calling SetHead on it.
HeadNext ==
    \/ HandshakeCall(1, gnetworkid, genesis)
    \/ SendStatus(Nil)
    \/ \E msg \in ValidMsgs : ReadStatus(msg)
    \/ SelectErrc
    \/ CommitTd
    \/ CommitHead
    \/ HeadRLock("t1", 1)
    \/ HeadCopyHash("t1")
    \/ HeadReturn("t1")
    \/ \E a \in SetHeadArgs : SetHeadLock("t2", 1, a[1], a[2])
    \/ SetHeadCopy("t2")
    \/ SetHeadSet("t2")

SpecHead == Init /\ [][HeadNext]_vars

\* The merge loop of proxy.Start fed the observations of its channels, the
\* refresh tasks it starts and peers being registered.
AggNext ==
    \/ \E hei \in HeiObs : RecvBestHei(hei)
    \/ \E hei \in HeiObs : RecvBestHei2(hei)
    \/ \E beststate \in StateObs : RecvBestState(beststate)
    \/ \E bestheaders \in HeaderBatches : RecvBestHeaders(bestheaders)
    \/ Tick
    \/ HackRecv
    \/ TickPullBestBlock
    \/ pullBestBlock
    \/ Register(1)

SpecAgg == Init /\ [][AggNext]_vars

\* The merge loop of the earlier copy of main.go.
AggOldNext ==
    \/ \E hei \in HeiObs : OldRecvBestHei(hei)
    \/ \E beststate \in StateObs : OldRecvBestState(beststate)
    \/ OldTick

SpecAggOld == Init /\ [][AggOldNext]_vars

SetNext ==
    \/ \E p \in PeerObjs : Register(p)
    \/ \E id \in PeerIds : Unregister(id)
    \/ \E id \in PeerIds : Peer(id)
    \/ PeerSetLen

SpecSet == Init /\ [][SetNext]_vars

\* The peers whose head the registry specifications set.
HeadPeers == {1, 3, 5}

\* The registry, SetHead on some of the peers and BestPeer.
BestNext ==
    \/ \E p \in PeerObjs : Register(p)
    \/ \E id \in PeerIds : Unregister(id)
    \/ \E p \in HeadPeers : \E a \in SetHeadArgs : SetHeadLock("t2", p, a[1], a[2])
    \/ SetHeadCopy("t2")
    \/ SetHeadSet("t2")
    \/ BestPeer

SpecBest == Init /\ [][BestNext]_vars

\* The registry of peers whose caches start as in CacheInit, marks on some
\* of the peers and the two cache queries.
WithoutNext ==
    \/ \E p \in HeadPeers : Register(p)
    \/ \E id \in PeerIds : Unregister(id)
    \/ \E p \in HeadPeers : \E h \in Tracked : MarkBlock(p, h)
    \/ \E p \in HeadPeers : \E h \in Tracked : MarkTransaction(p, h)
    \/ \E h \in Tracked : PeersWithoutBlock(h)
    \/ \E h \in Tracked : PeersWithoutTx(h)

SpecWithout == CacheInit /\ [][WithoutNext]_vars

\* The peers and the identities of the lock specification.
LockPeers == {1, 2, 3}

LockIds == {PeerId(p) : p \in LockPeers}

\* pullBestBlock in one task, the registry's methods in another and the
\* peers' methods in a third.
LockNext ==
    \/ Call("pull", "pullBestBlock", pullBestBlockProg, ZeroHash, NilTD)
    \/ \E p \in LockPeers : Call("reg", "Register", RegisterProg(p), ZeroHash, NilTD)
    \/ \E id \in LockIds : Call("reg", "Unregister", UnregisterProg(id), ZeroHash, NilTD)
    \/ \E op \in {"Peer", "Len", "PeersWithoutBlock", "PeersWithoutTx", "AllPeer"} :
          Call("reg", op, ReadProg, ZeroHash, NilTD)
    \/ Call("reg", "BestPeer", BestPeerProg, ZeroHash, NilTD)
    \/ \E p \in LockPeers : Call("hd", "Head", HeadProg(p), ZeroHash, NilTD)
    \/ \E p \in LockPeers : Call("hd", "SetHead", SetHeadProg(p), "h1", 7)
    \/ \E p \in LockPeers : Call("hd", "SetGenesis", SetGenesisProg(p), genesis, NilTD)
    \/ \E p \in LockPeers : Call("hd", "Genesis", GenesisProg(p), ZeroHash, NilTD)
    \/ \E t \in LockTasks : Step(t)

SpecLock == Init /\ [][LockNext]_vars

\* The registry after Register(1) on a new set.
InitRegistered ==
    /\ peers = [i \in {PeerId(1)} |-> 1]
    /\ closed = FALSE
    /\ ret = Result("Register", 1, Nil, 0)

\* The tasks of the lock specification started on a registry that holds
\* peer 1.
InitPull ==
    /\ InitPeers /\ InitCaches /\ InitHs /\ InitHt /\ InitAgg /\ InitLock
    /\ InitRegistered

SpecPull == InitPull /\ [][LockNext]_vars

\* The peers the refresh specification registers.
RefreshPeers == {1, 3}

\* The merge loop and its refreshes over a registry of peers that come, get
\* their genesis set and go.
RefreshNext ==
    \/ \E p \in RefreshPeers : Register(p)
    \/ \E p \in RefreshPeers : Unregister(PeerId(p))
    \/ \E p \in RefreshPeers : SetGenesis(p, genesis)
    \/ \E hei \in HeiObs : RecvBestHei(hei)
    \/ \E hei \in {o \in HeiObs : o.p = 1} : RecvBestHei2(hei)
    \/ \E beststate \in {o \in StateObs : o.TD = startTD + 5} :
          RecvBestState(beststate)
    \/ TickPullBestBlock
    \/ pullBestBlock

SpecRefresh == Init /\ [][RefreshNext]_vars

\* test2: the server is started, then Start is called; peers connect and
\* leave meanwhile.
InitStart ==
    InitPeers /\ InitCaches /\ InitHs /\ InitHt /\ InitProxy /\ InitSet /\ InitLock

StartNext ==
    \/ Start
    \/ \E p \in PeerObjs : Register(p)
    \/ \E id \in PeerIds : Unregister(id)
    \/ \E id \in PeerIds : Peer(id)
    \/ PeerSetLen

SpecStart == InitStart /\ [][StartNext]_vars

\* Start is called and the task running it is scheduled.
SpecStartFair == SpecStart /\ WF_vars(Start)

\* The registry with Close enabled.
SetCloseNext ==
    \/ \E p \in PeerObjs : Register(p)
    \/ \E id \in PeerIds : Unregister(id)
    \/ \E id \in PeerIds : Peer(id)
    \/ PeerSetLen
    \/ Close

SpecSetClose == Init /\ [][SetCloseNext]_vars

\* ------------------------------------------------------------------------
\* Properties
\* ------------------------------------------------------------------------
RECURSIVE SetMax(_)
SetMax(S) ==
    IF S = {} THEN NilTD
    ELSE LET x == CHOOSE y \in S : TRUE
             m == SetMax(S \ {x})
         IN IF x > m THEN x ELSE m

\* C1: whatever hashes are marked known, through MarkBlock / MarkTransaction
\* or through the send operations, a peer's known-block cache never holds
\* more than 1024 hashes and its known-transaction cache never more than
\* 32768.
C1_CachesBounded ==
    \A p \in PeerObjs :
       /\ Size(knownBlocks[p]) <= 1024
       /\ Size(knownTxs[p]) <= 32768

\* C2: a Head() call running beside the writers of head and td returns a
\* (hash, difficulty) pair that one write stored together.
C2_HeadNeverTorn ==
    \A t \in HeadTasks : ht[t].calls = 1 => ht[t].res \in written

\* C3: the stored best state's genesis hash equals the configured genesis in
\* every reachable state, in each copy of the merge loop.
C3_GenesisKept ==
    /\ bestState.GenesisBlock = genesis
    /\ bestStateOld.GenesisBlock = genesis

\* C4: no step of the merge loop, of a tick or of a refresh lowers the total
\* difficulty of the stored best chain state.
C4_TdNeverDecreases == [][bestState'.TD >= bestState.TD]_vars

C4_Witness ==
    /\ bestState.TD = startTD + 5
    /\ [TD |-> startTD - 2, GenesisBlock |-> genesis] \in seen
    /\ [TD |-> startTD + 1, GenesisBlock |-> genesis] \in seen
    /\ pulls > 0

\* C5: the stored best total difficulty is the maximum of the initial total
\* difficulty and the total difficulties of the observations received so far
\* whose genesis is the configured genesis.
C5_BestIsMaxOfMatching ==
    bestState.TD =
        SetMax({startTD} \cup {o.TD : o \in {x \in seen : x.GenesisBlock = genesis}})

\* 8 with the configured genesis and 15 with another genesis leave the
\* initial 10.
C5_Witness ==
    /\ [TD |-> startTD - 2, GenesisBlock |-> genesis] \in seen
    /\ [TD |-> startTD + 5, GenesisBlock |-> "h1"] \in seen
    /\ bestState.TD = startTD

\* C6: readStatus reports the first failing check, in the order message
\* code, declared size (more than 10,485,760 bytes fails, without decoding),
\* decoding, genesis, network id, protocol version; and a validation error
\* that Handshake returns is the one readStatus reported.
C6_ValidationOrder ==
    /\ (hs.rdr = "done" /\ hs.rres # ReadError) =>
          LET m == hs.rmsg
              codeBad == m.code # 0
              tooLarge == m.size > 10485760
              genBad == m.st.GenesisBlock # hs.genesis
              netBad == m.st.NetworkId # hs.network
              verBad == m.st.ProtocolVersion # PeerVersion(hs.peer)
          IN /\ codeBad => hs.rres = ErrNoStatusMsg /\ ~hs.decoded
             /\ (~codeBad /\ tooLarge) =>
                   hs.rres = ErrMsgTooLarge /\ ~hs.decoded
             /\ (~codeBad /\ m.size = 10485760) => hs.rres # ErrMsgTooLarge
             /\ (~codeBad /\ ~tooLarge) => hs.decoded
             /\ (~codeBad /\ ~tooLarge /\ ~m.ok) => hs.rres = ErrDecode
             /\ (~codeBad /\ ~tooLarge /\ m.ok /\ genBad) =>
                   hs.rres = ErrGenesisBlockMismatch
             /\ (~codeBad /\ ~tooLarge /\ m.ok /\ ~genBad /\ netBad) =>
                   hs.rres = ErrNetworkIdMismatch
             /\ (~codeBad /\ ~tooLarge /\ m.ok /\ ~genBad /\ ~netBad /\ verBad) =>
                   hs.rres = ErrProtocolVersionMismatch
             /\ (~codeBad /\ ~tooLarge /\ m.ok /\ ~genBad /\ ~netBad /\ ~verBad) =>
                   hs.rres = Nil
    /\ (hs.st = "done" /\ hs.ret \in
            {ErrNoStatusMsg, ErrMsgTooLarge, ErrDecode, ErrGenesisBlockMismatch,
             ErrNetworkIdMismatch, ErrProtocolVersionMismatch}) =>
          hs.ret = hs.rres

\* A status of exactly 10,485,760 bytes that mismatches on genesis, network
\* id and version: Handshake returned the genesis mismatch.
C6_Witness ==
    /\ hs.st = "done" /\ hs.rdr = "done"
    /\ hs.rmsg.code = 0 /\ hs.rmsg.size = 10485760 /\ hs.rmsg.ok
    /\ hs.rmsg.st.GenesisBlock # hs.genesis
    /\ hs.rmsg.st.NetworkId # hs.network
    /\ hs.rmsg.st.ProtocolVersion # PeerVersion(hs.peer)
    /\ hs.ret = ErrGenesisBlockMismatch

\* C7: a Handshake that has returned an error leaves the peer's head and
\* total difficulty as they were when it was called.
C7_FailureKeepsHead ==
    (hs.st = "done" /\ hs.ret # Nil) =>
       /\ head[hs.peer] = hs.head0
       /\ td[hs.peer] = hs.td0

\* A refresh of a peer whose head an earlier Handshake set fails on the
\* genesis of a decoded status that carries another head.
C7_Witness ==
    /\ hs.st = "done" /\ hs.n = 2
    /\ hs.ret = ErrGenesisBlockMismatch
    /\ hs.head0 # ZeroHash
    /\ hs.status.CurrentBlock # head[hs.peer]

C9_SuccessSetsHead ==
    (hs.st = "done" /\ hs.ret = Nil) =>
       /\ hs.snd = "done" /\ hs.sres = Nil
       /\ hs.rdr = "done" /\ hs.rres = Nil
       /\ hs.rmsg.code = 0 /\ hs.rmsg.size <= 10485760 /\ hs.rmsg.ok
       /\ hs.rmsg.st.GenesisBlock = hs.genesis
       /\ hs.rmsg.st.NetworkId = hs.network
       /\ hs.rmsg.st.ProtocolVersion = PeerVersion(hs.peer)
       /\ head[hs.peer] = hs.rmsg.st.CurrentBlock
       /\ td[hs.peer] = hs.rmsg.st.TD

\* A refresh replaced the head and difficulty an earlier Handshake had set,
\* with a reading task of the earlier one still waiting.
C9_Witness ==
    /\ hs.st = "done" /\ hs.ret = Nil /\ hs.n = 2
    /\ hs.head0 # ZeroHash
    /\ head[hs.peer] # hs.head0
    /\ td[hs.peer] # hs.td0

\* C10: Register of a registered identity fails with errAlreadyRegistered
\* and changes neither the map nor its length; Register of an absent
\* identity on an open set succeeds and the identity then looks up to that
\* peer; an identity that stays registered keeps its peer.
C10_Register ==
    /\ [][\A p \in PeerObjs :
            (ret' # ret /\ ret'.op = "Register" /\ ret'.arg = p) =>
               /\ PeerId(p) \in DOMAIN peers =>
                     /\ ret'.err = errAlreadyRegistered
                     /\ peers' = peers
                     /\ Cardinality(DOMAIN peers') = Cardinality(DOMAIN peers)
               /\ (PeerId(p) \notin DOMAIN peers /\ ~closed) =>
                     /\ ret'.err = Nil
                     /\ Lookup(PeerId(p))' = p]_vars
    /\ [][\A i \in DOMAIN peers \cap DOMAIN peers' : peers'[i] = peers[i]]_vars

\* A second peer object with a registered identity was refused and the
\* identity still maps to the first.
C10_Witness ==
    /\ ret.op = "Register" /\ ret.err = errAlreadyRegistered
    /\ PeerId(ret.arg) \in DOMAIN peers
    /\ peers[PeerId(ret.arg)] # ret.arg

\* C11: Unregister of an identity that is not registered fails with
\* errNotRegistered and leaves the map as it is; Unregister of a registered
\* identity removes that entry and no other, so that the identity looks up
\* to nil and the length is one less; Peer and Len report the map as it is;
\* and the entry of an identity changes only in a Register or Unregister of
\* that identity, whatever is done to the others.
C11_Unregister ==
    /\ [][\A id \in PeerIds :
            (ret' # ret /\ ret'.op = "Unregister" /\ ret'.arg = id) =>
               /\ id \notin DOMAIN peers =>
                     /\ ret'.err = errNotRegistered
                     /\ peers' = peers
               /\ id \in DOMAIN peers =>
                     /\ ret'.err = Nil
                     /\ DOMAIN peers' = DOMAIN peers \ {id}
                     /\ Lookup(id)' = NoPeer
                     /\ Cardinality(DOMAIN peers') = Cardinality(DOMAIN peers) - 1
                     /\ \A i \in DOMAIN peers' : peers'[i] = peers[i]]_vars
    /\ [][(ret' # ret /\ ret'.op = "Peer") => ret'.val = Lookup(ret'.arg)]_vars
    /\ [][(ret' # ret /\ ret'.op = "Len") =>
              ret'.val = Cardinality(DOMAIN peers)]_vars
    /\ [][\A id \in PeerIds :
            Lookup(id)' # Lookup(id) =>
               \/ ret'.op = "Register" /\ PeerId(ret'.arg) = id
                                       /\ Lookup(id) = NoPeer
               \/ ret'.op = "Unregister" /\ ret'.arg = id
                                         /\ Lookup(id)' = NoPeer]_vars

\* An identity was removed while another stayed registered, and an
\* Unregister of an absent identity was refused.
C11_Witness ==
    /\ ret.op = "Unregister" /\ ret.err = Nil
    /\ Lookup(ret.arg) = NoPeer
    /\ Cardinality(DOMAIN peers) = 2

C11_WitnessAbsent ==
    /\ ret.op = "Unregister" /\ ret.err = errNotRegistered
    /\ Lookup(ret.arg) = NoPeer
    /\ DOMAIN peers # {}

\* C12: on a closed set every Register fails with errClosed, also for a
\* registered identity, and adds nothing; the set stays closed; the peers
\* registered before the close are still returned by Peer and removed by
\* Unregister.
C12_ClosedRefuses ==
    /\ [][(closed /\ ret' # ret /\ ret'.op = "Register") =>
              /\ ret'.err = errClosed
              /\ peers' = peers]_vars
    /\ [][closed => closed']_vars
    /\ [][(closed /\ ret' # ret /\ ret'.op = "Peer"
                  /\ ret'.arg \in DOMAIN peers) =>
              ret'.val = peers[ret'.arg]]_vars
    /\ [][(closed /\ ret' # ret /\ ret'.op = "Unregister"
                  /\ ret'.arg \in DOMAIN peers) =>
              /\ ret'.err = Nil
              /\ DOMAIN peers' = DOMAIN peers \ {ret'.arg}]_vars

\* A closed set refused a second peer object of a registered identity with
\* errClosed.
C12_Witness ==
    /\ closed
    /\ ret.op = "Register" /\ ret.err = errClosed
    /\ PeerId(ret.arg) \in DOMAIN peers
    /\ peers[PeerId(ret.arg)] # ret.arg

\* C13: BestPeer returns nil when no registered peer has a total difficulty
\* (an empty set included), and otherwise a registered peer with a total
\* difficulty that none of the registered peers' total difficulties exceeds.
C13_BestPeer ==
    [][(ret' # ret /\ ret'.op = "BestPeer") =>
         LET C == {p \in Registered : td[p] # NilTD}
         IN IF C = {} THEN ret'.val = NoPeer
            ELSE /\ ret'.val \in C
                 /\ \A q \in C : td[ret'.val] >= td[q]]_vars

\* Three registered peers with total difficulties 7, 8 and that of a new
\* peer: BestPeer returned the one with 8.
C13_Witness ==
    /\ ret.op = "BestPeer" /\ ret.val = 3
    /\ Registered = {1, 3, 5}
    /\ td[1] = 7 /\ td[3] = 8 /\ td[5] = 0

\* C14: Head() on a peer whose total difficulty nothing has set yet (no
\* SetHead, no Handshake) returns a nil total difficulty.
C14_NewPeerHeadNil ==
    \A t \in HeadTasks :
       (ht[t].calls = 1 /\ hs.n = 0 /\ written = {<<ZeroHash, 0>>}) =>
          ht[t].res[2] = NilTD

\* The members of a sequence
Range(q) == {q[i] : i \in DOMAIN q}

\* C15: PeersWithoutBlock(h) returns, each once, the registered peers whose
\* known-block cache does not hold h when it is called, and no other peer;
\* PeersWithoutTx(h) the same of the known-transaction caches.
C15_PeersWithout ==
    /\ [][(ret' # ret /\ ret'.op = "PeersWithoutBlock") =>
              /\ Range(ret'.list) =
                    {p \in Registered : ret'.hash \notin knownBlocks[p].tr}
              /\ Len(ret'.list) = Cardinality(Range(ret'.list))]_vars
    /\ [][(ret' # ret /\ ret'.op = "PeersWithoutTx") =>
              /\ Range(ret'.list) =
                    {p \in Registered : ret'.hash \notin knownTxs[p].tr}
              /\ Len(ret'.list) = Cardinality(Range(ret'.list))]_vars

\* Of three registered peers only one holds h1 in a full known-block cache:
\* the query for h1 returned the other two.
C15_Witness ==
    /\ ret.op = "PeersWithoutBlock" /\ ret.hash = "h1"
    /\ Registered = {1, 3, 5}
    /\ Range(ret.list) = {3, 5} /\ Len(ret.list) = 2
    /\ "h1" \in knownBlocks[1].tr
    /\ Size(knownBlocks[1]) = maxKnownBlocks
    /\ knownBlocks[3].tr = {"h2"}

\* C16: every access a task makes to the registry's map is made with the
\* set lock held by that task (so none is made beside a writer of the map).
C16_MapAccessLocked ==
    \A t \in LockTasks : lt[t].acc \in {"none", "locked"}

\* The instructions that ask for a lock.
LockRequests == {"LockWant", "Lock", "RLock", "PLockWant", "PLock", "PRLock"}

\* C17: a task holds at most one peer's lock and, while it holds one, asks
\* for no other lock (so the set lock is only ever taken before a peer
\* lock); and whenever tasks are inside methods, one of them can take its
\* next step: no set of tasks waits for each other's locks.
C17_NoDeadlock ==
    /\ \A t \in LockTasks : Cardinality(HeldPeers(t)) <= 1
    /\ \A t \in LockTasks :
          (HeldPeers(t) # {} /\ lt[t].prog # <<>>) =>
             Head(lt[t].prog).i \notin LockRequests
    /\ \A t \in LockTasks : \A p \in PeerObjs :
          t \in plock[p].q => ~HoldsSet(t) /\ HeldPeers(t) = {}
    /\ (\E t \in LockTasks : lt[t].prog # <<>>) =>
          \E t \in LockTasks : lt[t].prog # <<>> /\ Ready(t)

\* BestPeer, inside pullBestBlock, holds the set lock and a peer's lock
\* while a SetHead waits for that peer's lock.
C17_Witness ==
    /\ "pull" \in slock.r
    /\ \E p \in PeerObjs : "pull" \in plock[p].r /\ "hd" \in plock[p].q

\* C18: the merge loop is never stopped at a blocking channel operation
\* of its loop body; it is at its select whenever it is not handling a
\* message.
C18_LoopNeverBlocks == aggPc # "hackRecv"

\* C19: a step that changes the best chain state, a best-height record or
\* the retained header is a step of the merge loop at its select, changes
\* one of them only, and is no step of a refresh or of the registry.
C19_SingleWriter ==
    [][<<bestState, bestHeiAndPeer, bestHeiAndPeer2, bestHeader>>' #
          <<bestState, bestHeiAndPeer, bestHeiAndPeer2, bestHeader>> =>
         /\ aggPc = "select"
         /\ pulls' = pulls
         /\ UNCHANGED <<peerVars, hsVars, setVars>>
         /\ Cardinality({i \in 1..4 :
               <<bestState, bestHeiAndPeer, bestHeiAndPeer2, bestHeader>>'[i] #
               <<bestState, bestHeiAndPeer, bestHeiAndPeer2, bestHeader>>[i]}) = 1]_vars

\* The loop has merged a chain state and heights of both classes, a refresh
\* of the registered peer has stored a status in it and another refresh is
\* running.
C19_Witness ==
    /\ pulls = 1 /\ Registered = {1}
    /\ td[1] = 9 /\ head[1] = "h2"
    /\ bestState.TD = startTD + 5
    /\ bestHeiAndPeer.bestHei = 2 /\ bestHeiAndPeer2.bestHei = 1

\* C20: each best-height record never decreases, is replaced only by an
\* observation of a strictly greater height, and a step that replaces one
\* record leaves the other record, the best chain state and the retained
\* header as they were.
C20_HeightsMonotone ==
    [][/\ bestHeiAndPeer'.bestHei >= bestHeiAndPeer.bestHei
       /\ bestHeiAndPeer2'.bestHei >= bestHeiAndPeer2.bestHei
       /\ bestHeiAndPeer' # bestHeiAndPeer =>
             /\ bestHeiAndPeer'.bestHei > bestHeiAndPeer.bestHei
             /\ bestHeiAndPeer' \in HeiObs
             /\ UNCHANGED <<bestHeiAndPeer2, bestState, bestHeader>>
       /\ bestHeiAndPeer2' # bestHeiAndPeer2 =>
             /\ bestHeiAndPeer2'.bestHei > bestHeiAndPeer2.bestHei
             /\ bestHeiAndPeer2' \in HeiObs
             /\ UNCHANGED <<bestHeiAndPeer, bestState, bestHeader>>]_vars

\* Height 2 from peer 1 in one class and height 1 from peer 2 in the other,
\* the best chain state and the header untouched.
C20_Witness ==
    /\ bestHeiAndPeer = [bestHei |-> 2, p |-> 1]
    /\ bestHeiAndPeer2 = [bestHei |-> 1, p |-> 2]
    /\ bestState = InitialBestState
    /\ bestHeader = ZeroHeader

\* The header of a batch with the highest block number, the first of them
\* when several carry it.
RECURSIVE Highest(_, _)
Highest(batch, best) ==
    IF batch = <<>> THEN best
    ELSE Highest(Tail(batch),
                 IF Head(batch).Number > best.Number THEN Head(batch) ELSE best)

\* C21: when the merge loop has processed a batch of headers (each with a
\* block number), the retained best header is the batch's header of highest
\* block number if that number exceeds the number retained before (any
\* number does when no header was retained), and the header retained before
\* otherwise; an empty batch leaves it as it was.
C21_HeaderBatch ==
    [][\A b \in HeaderBatches :
          ((\A i \in DOMAIN b : b[i].Number # NilTD) /\ RecvBestHeaders(b)) =>
             bestHeader' = Highest(b, bestHeader)]_vars

\* C22: the merge loop is never ended by an input: after every observation
\* it received it is running, at its select or on its way back to it.
C22_NeverAborts == aggPc # "panicked"

\* C23: from every state the merge loop can be in, two observations leave
\* the same best-height record (height and originating peer) and the same
\* best chain state whichever of them arrives first, and an observation
\* merged a second time changes nothing; so every arrival order of a
\* multiset of observations ends in the same aggregate state.
C23_OrderIndependent ==
    /\ \A a, b \in HeiObs : \A cur \in {bestHeiAndPeer, bestHeiAndPeer2} :
          /\ MergeHei(b, MergeHei(a, cur)) = MergeHei(a, MergeHei(b, cur))
          /\ MergeHei(a, MergeHei(a, cur)) = MergeHei(a, cur)
    /\ \A a, b \in {o \in StateObs : o.TD # NilTD} :
          /\ MergeState(b, MergeState(a, bestState)) =
                MergeState(a, MergeState(b, bestState))
          /\ MergeState(a, MergeState(a, bestState)) = MergeState(a, bestState)

\* C24: a refresh whose Handshake failed leaves the head, total difficulty,
\* genesis and caches of every peer but the probed one, the registry and
\* the aggregate state as they were; and a refresh is a step of a task
\* that a fast tick started, one refresh for each tick, so nothing probes
\* again before the next fast tick.
C24_FailedRefreshFrame ==
    /\ [][(pulls' < pulls /\ ret'.err \notin {Nil, "none"}) =>
            /\ ret'.arg \in Registered
            /\ \A q \in PeerObjs \ {ret'.arg} :
                  /\ head'[q] = head[q] /\ td'[q] = td[q]
                  /\ pgenesis'[q] = pgenesis[q]
                  /\ knownBlocks'[q] = knownBlocks[q]
                  /\ knownTxs'[q] = knownTxs[q]
            /\ UNCHANGED <<peers, closed>>
            /\ UNCHANGED <<bestState, bestHeiAndPeer, bestHeiAndPeer2,
                           bestHeader, aggPc>>]_vars
    /\ [][pulls' < pulls => pulls' = pulls - 1 /\ ret'.op = "pullBestBlock"]_vars
    /\ [][(ret' # ret /\ ret'.op = "pullBestBlock") => pulls' = pulls - 1]_vars
    /\ [][pulls' > pulls => pulls' = pulls + 1 /\ aggPc = "select"]_vars

\* Two registered peers refreshed earlier to difficulties 9 and 5, a chain
\* state and a height merged: the refresh of the better peer timed out.
C24_Witness ==
    /\ pulls = 0
    /\ ret.op = "pullBestBlock" /\ ret.arg = 1 /\ ret.err = DiscReadTimeout
    /\ Registered = {1, 3}
    /\ td[1] = 9 /\ head[1] = "h2" /\ td[3] = 5 /\ head[3] = "h1"
    /\ bestState.TD = startTD + 5
    /\ bestHeiAndPeer.bestHei = 2

\* C25: whatever a peer's caches hold, MarkBlock(h) called a second time
\* right after MarkBlock(h) leaves the known-block cache with the size it
\* had after the first call; MarkTransaction likewise.
C25_MarkIdempotent ==
    \A p \in CachePeers : \A h \in Tracked :
       /\ \A s1 \in Mark(knownBlocks[p], h, maxKnownBlocks) :
             \A s2 \in Mark(s1, h, maxKnownBlocks) : Size(s2) = Size(s1)
       /\ \A s1 \in Mark(knownTxs[p], h, maxKnownTxs) :
             \A s2 \in Mark(s1, h, maxKnownTxs) : Size(s2) = Size(s1)

\* C26: when pullBestBlock comes to call Handshake, it calls it on the peer
\* BestPeer returned, and the head, total difficulty and genesis it passes
\* were read from that same peer, found in the registry by the lookup that
\* followed; after a BestPeer that returned nil, or when that peer was
\* unregistered before the lookup, it does not come to call Handshake.
C26_RefreshProbesBestPeer ==
    \A t \in LockTasks :
       (lt[t].prog # <<>> /\ Head(lt[t].prog).i = "Handshake") =>
          /\ lt[t].best # NoPeer
          /\ Head(lt[t].prog).a = lt[t].best
          /\ lt[t].pp = lt[t].best

\* C27: at most one read started by Handshake is pending on the peer's
\* message channel at any time, over the invocations that follow each
\* other on the peer; and once Handshake has returned, no reading task it
\* or an earlier invocation started is still in ReadMsg.
C27_OneReader ==
    /\ old.rdr + (IF hs.rdr = "run" THEN 1 ELSE 0) <= 1
    /\ hs.st = "done" => (hs.rdr # "run" /\ old.rdr = 0)

\* C29: a task of Handshake that is still in its I/O finds room on the
\* result channel whenever it finishes, whether Handshake is still
\* receiving or has returned: the results waiting on the channel and the
\* tasks still to report never exceed its capacity.
C29_ReportNeverBlocks ==
    /\ Len(hs.errc) + Running(hs) <= ErrcCap
    /\ Running(hs) > 0 => Room(hs.errc)

\* Handshake returned on a timer that fired before both tasks had reported,
\* and both tasks have since delivered their results, which nothing
\* receives.
C29_Witness ==
    /\ hs.st = "done" /\ hs.ret = DiscReadTimeout /\ hs.early
    /\ hs.snd = "done" /\ hs.rdr = "done"
    /\ Len(hs.errc) = 2

\* C28: once Start is called on the proxy as constructed, it returns with
\* the merge loop running at its select.
C28_StartReturns == <>(aggPc = "select")

====
